---- MODULE Spec2Model ----
(***************************************************************************)
(* Duration-resolution engine and queue controllers of the Video Duration  *)
(* Calculator.                                                             *)
(*                                                                         *)
(* The repository holds two revisions of the queue controller (App.tsx):   *)
(*   app = "batch" : explicit processBatch loop, sequential (lines 58-115) *)
(*   app = "auto"  : processVideo per added file, with the remote (AI)     *)
(*                   fallback (lines 333-392)                              *)
(* and two revisions of getVideoDuration (services/videoProcessor.ts):     *)
(*   proc = "v1"   : probe settles on loadedmetadata, 10 s timeout         *)
(*   proc = "v2"   : probe seeks to the end and settles on seeked, 5 s     *)
(* Which revisions are built is fixed in Init and never changes.           *)
(* app = "none" is getVideoDuration called on its own, by a caller that    *)
(* only awaits the result (ProbeSpec).                                     *)
(*                                                                         *)
(* Spec is the whole program. The handlers of a probe touch nothing but    *)
(* their own closure and the promise they settle, so once that promise is  *)
(* settled Spec leaves the closure out (Returned); what a probe does after *)
(* it has settled is studied in ProbeSpec, where the closure is kept.      *)
(*                                                                         *)
(* One action is one browser task: an event handler together with every    *)
(* promise continuation (microtask) it makes runnable, up to the next      *)
(* await on real I/O.                                                      *)
(*                                                                         *)
(* Durations are JavaScript numbers, kept in hundredths of a second:       *)
(* Num(998) is 9.98 s.                                                     *)
(***************************************************************************)
EXTENDS Integers, Sequences, FiniteSets, TLC

\* Number of files the user adds over a run (ids are 1..MaxFiles).
MaxFiles == 2

\* Batch-mode queue capacity.
MAX_ITEMS == 1000

\* Number of files accepted beyond the capacity over a run that fills the
\* queue, and how far below its capacity such a queue is emptied item by
\* item.
ExtraFiles == 3
RemoveDepth == 3

VARIABLES app, proc, videoList, fileMap, nextId, isProcessing, batch,
          processingRef, res, running, mode, parser, file, walk

\* The binary parser's state: its revision, the File it reads, its locals.
pvars == <<parser, file, walk>>

vars == <<app, proc, videoList, fileMap, nextId, isProcessing, batch,
          processingRef, res, running, mode, pvars>>

Ids == 1..MaxFiles

-----------------------------------------------------------------------------
(* JavaScript numbers *)

Num(v) == [k |-> "num", v |-> v]
NaN == [k |-> "nan", v |-> 0]
Infinity == [k |-> "inf", v |-> 0]
\* "no value read yet" (history fields only)
None == [k |-> "none", v |-> 0]

\* x > 0
Gt0(x) == x.k = "inf" \/ (x.k = "num" /\ x.v > 0)

\* x !== Infinity
NotInfinity(x) == x.k # "inf"

\* isNaN(x)
IsNaN(x) == x.k = "nan"

\* JavaScript truthiness of a number: false for 0 and NaN
Truthy(x) == x.k = "inf" \/ (x.k = "num" /\ x.v # 0)

\* Values video.duration takes once the engine has loaded metadata / seeked.
ProbeDurations == {Infinity, Num(0), Num(998), Num(1000)}

\* video.currentTime after a seek to the end.
SeekPositions == {Num(0), Num(998)}

\* Numbers getMp4DurationInstantly can return.
BinaryValues == {Num(0), Num(3000), Infinity}

\* Ways getMp4DurationInstantly can throw.
BinaryFailures == {"ShortRead", "MalformedBox", "NotFound", "DecodeError"}

\* response.text of the remote service (undefined when absent).
RemoteTexts == {"12.5", "abc", "undefined"}

\* Number(response.text)
NumberOf(t) == IF t = "12.5" THEN Num(1250) ELSE NaN

-----------------------------------------------------------------------------
(* Item list: setVideoList(prev => prev.map(v => v.id === id ? {...} : v)) *)

NewItem(id, status, step) ==
  [id |-> id, status |-> status, duration |-> Num(0), step |-> step]

\* Mutant: the test of the id is missing, every item gets the label.
SetStep_Every(list, id, step) ==
  [i \in DOMAIN list |-> [list[i] EXCEPT !.step = step]]

SetStep(list, id, step) ==
  [i \in DOMAIN list |->
     IF list[i].id = id THEN [list[i] EXCEPT !.step = step] ELSE list[i]]

SetProcessing(list, id) ==
  [i \in DOMAIN list |->
     IF list[i].id = id
     THEN [list[i] EXCEPT !.status = "processing", !.step = "ANALYZE"]
     ELSE list[i]]

\* Mutant: an outcome for an id the list does not hold is added to it.
SetCompleted_Upsert(list, id, d, keepStep) ==
  IF \E i \in DOMAIN list : list[i].id = id
  THEN [i \in DOMAIN list |->
          IF list[i].id = id
          THEN [list[i] EXCEPT !.duration = d, !.status = "completed",
                               !.step = IF keepStep THEN @ ELSE "undefined"]
          ELSE list[i]]
  ELSE Append(list, [id |-> id, status |-> "completed", duration |-> d,
                     step |-> "undefined"])

SetCompleted(list, id, d, keepStep) ==
  [i \in DOMAIN list |->
     IF list[i].id = id
     THEN [list[i] EXCEPT !.duration = d, !.status = "completed",
                          !.step = IF keepStep THEN @ ELSE "undefined"]
     ELSE list[i]]

\* Mutant: a failed item is put back into the queue as 'pending'.
SetError_Requeue(list, id, keepStep) ==
  [i \in DOMAIN list |->
     IF list[i].id = id
     THEN [list[i] EXCEPT !.status = "pending",
                          !.step = IF keepStep THEN @ ELSE "undefined"]
     ELSE list[i]]

SetError(list, id, keepStep) ==
  [i \in DOMAIN list |->
     IF list[i].id = id
     THEN [list[i] EXCEPT !.status = "error",
                          !.step = IF keepStep THEN @ ELSE "undefined"]
     ELSE list[i]]

RemoveItem(list, id) == SelectSeq(list, LAMBDA v : v.id # id)

ListIds(list) == {list[i].id : i \in DOMAIN list}

ItemOf(list, id) == list[CHOOSE i \in DOMAIN list : list[i].id = id]

-----------------------------------------------------------------------------
(* One resolution (one call of getVideoDuration and its caller's tail).    *)
(*   pc          where the caller stands                                   *)
(*   gv, gvVal   state and value of the promise getVideoDuration returned  *)
(*   isSettled .. seeking   the probe closure and its video element        *)
(*   tiers, bin, err, settleCalls, cleanups, initDur, seekTo, postDur,     *)
(*   remoteCalls, remote   history of what the resolution did              *)
(*   steps       the labels reported for the item, in order                *)
(*   onStepThrows   the onStep callback of the caller throws               *)

IdleRes ==
  [pc |-> "idle", tiers |-> <<>>, bin |-> "none",
   gv |-> "pending", gvVal |-> Num(0), err |-> "none",
   isSettled |-> FALSE, onmeta |-> FALSE, onseeked |-> FALSE,
   onerror |-> FALSE, timer |-> "none", url |-> FALSE, src |-> FALSE,
   vdur |-> NaN, seeking |-> FALSE, metaFired |-> FALSE, errFired |-> FALSE,
   cleanups |-> 0, settleCalls |-> 0,
   initDur |-> None, seekTo |-> None, postDur |-> None,
   remoteCalls |-> 0, remote |-> "none",
   steps |-> <<>>, onStepThrows |-> FALSE]

\* getVideoDuration entered with a File: v1 reports "BINARY SCAN...", the
\* binary parse is awaited.
BinaryStarted ==
  [IdleRes EXCEPT !.pc = "binary", !.tiers = <<"binary">>,
                  !.steps = IF proc = "v1" THEN <<"BINARY SCAN...">>
                            ELSE <<>>]

\* What the exception of a throwing onStep rejects getVideoDuration with.
StepError == "onStep error"

\* onStep(label) is called.
OnStep(r, label) == [r EXCEPT !.steps = Append(@, label)]

\* An exception leaves the async function getVideoDuration: the promise it
\* returned is rejected.
Escapes(r, e) == [r EXCEPT !.gv = "rejected", !.err = e]

\* resolve(data) of the promise
PResolve(r, d) ==
  [r EXCEPT !.settleCalls = @ + 1,
            !.gv = IF r.gv = "pending" THEN "resolved" ELSE @,
            !.gvVal = IF r.gv = "pending" THEN d ELSE @]

\* reject(new Error(e)) of the promise
PReject(r, e) ==
  [r EXCEPT !.settleCalls = @ + 1,
            !.gv = IF r.gv = "pending" THEN "rejected" ELSE @,
            !.err = IF r.gv = "pending" THEN e ELSE @]

\* cleanup(): v1 also clears the timer; v2 also detaches onseeked.
\* removeAttribute('src') and load() reset the element: no event of the old
\* source fires any more and video.duration is NaN again.
Cleanup(r) ==
  IF proc = "v1"
  THEN [r EXCEPT !.timer = IF @ = "armed" THEN "cleared" ELSE @,
                 !.onmeta = FALSE, !.onerror = FALSE,
                 !.src = FALSE, !.seeking = FALSE, !.url = FALSE,
                 !.vdur = NaN, !.cleanups = @ + 1]
  ELSE [r EXCEPT !.onmeta = FALSE, !.onseeked = FALSE, !.onerror = FALSE,
                 !.src = FALSE, !.seeking = FALSE, !.url = FALSE,
                 !.vdur = NaN, !.cleanups = @ + 1]

SafeResolve(r, d) ==
  IF r.isSettled THEN r
  ELSE PResolve(Cleanup([r EXCEPT !.isSettled = TRUE]), d)

\* v1 only
SafeReject(r, e) ==
  IF r.isSettled THEN r
  ELSE PReject(Cleanup([r EXCEPT !.isSettled = TRUE]), e)

\* The promise executor for a File source: object URL, video element,
\* handlers, timer, video.src = url.
ProbeStarted(r) ==
  [r EXCEPT !.pc = "probe", !.tiers = Append(@, "probe"),
            !.url = TRUE, !.src = TRUE,
            !.onmeta = TRUE, !.onerror = TRUE, !.onseeked = (proc = "v2"),
            !.timer = "armed"]

\* The duration v1 accepts on loadedmetadata: d && !isNaN(d) && d !== Infinity
ValidDuration(d) == Truthy(d) /\ ~IsNaN(d) /\ NotInfinity(d)

\* video.onloadedmetadata, video.duration being d
OnLoadedMetadata(r0, d) ==
  LET r == [r0 EXCEPT !.vdur = d, !.metaFired = TRUE] IN
  IF ~r.onmeta THEN r
  ELSE IF proc = "v1"
       THEN IF ValidDuration(d)
            THEN SafeResolve([r EXCEPT !.initDur = d], d)
            ELSE SafeReject([r EXCEPT !.initDur = d], "Invalid Duration")
       ELSE [r EXCEPT !.initDur = d, !.seeking = TRUE,
                      !.seekTo = IF Gt0(d) /\ NotInfinity(d)
                                 THEN d ELSE Num(99999900)]

\* finalDuration of v2's onseeked
FinalDuration(d, ct) == IF NotInfinity(d) THEN d ELSE ct

\* video.onseeked (v2), video.duration being d and video.currentTime ct
OnSeeked(r0, d, ct) ==
  LET r == [r0 EXCEPT !.vdur = d, !.seeking = FALSE] IN
  IF ~r.onseeked THEN r
  ELSE IF Gt0(FinalDuration(d, ct))
       THEN SafeResolve([r EXCEPT !.postDur = d], FinalDuration(d, ct))
       ELSE [r EXCEPT !.postDur = d]

\* video.onerror
OnError(r0) ==
  LET r == [r0 EXCEPT !.errFired = TRUE, !.seeking = FALSE] IN
  IF ~r.onerror THEN r
  ELSE IF proc = "v1"
       THEN IF ~r.isSettled THEN SafeReject(r, "Codec Incompatible") ELSE r
       ELSE PReject(r, "Format Error")

\* Mutant: the timer's callback settles nothing.
OnTimeout_Nothing(r0) == [r0 EXCEPT !.timer = "fired"]

\* the setTimeout callback
OnTimeout(r0) ==
  LET r == [r0 EXCEPT !.timer = "fired"] IN
  IF proc = "v1"
  THEN SafeReject(r, "Probe Timeout")
  ELSE IF ~r.isSettled
       THEN IF Gt0(r.vdur) /\ NotInfinity(r.vdur)
            THEN SafeResolve(r, r.vdur)
            ELSE PReject(r, "Timeout")
       ELSE r

-----------------------------------------------------------------------------
(* The callers of getVideoDuration *)

\* getVideoDuration has settled and its caller goes on: of the resolution
\* the caller sees the promise's outcome only.
Returned(r) ==
  [IdleRes EXCEPT !.pc = "done", !.tiers = r.tiers, !.gv = r.gv,
                  !.gvVal = r.gvVal, !.remoteCalls = r.remoteCalls,
                  !.remote = r.remote, !.steps = r.steps]

IdleBatch == [pending |-> <<>>, files |-> {}, i |-> 0, dispatched |-> <<>>]

\* Mutant: the status filter is missing, every item is taken.
PendingSnapshot_All(list) == [j \in DOMAIN list |-> list[j].id]

\* const pending = videoList.filter(v => v.status === 'pending' || v.status === 'error')
PendingSnapshot(list) ==
  LET sel == SelectSeq(list, LAMBDA v : v.status \in {"pending", "error"})
  IN [j \in DOMAIN sel |-> sel[j].id]

\* The next index >= from of the snapshot whose id has a file
\* (if (!file) continue), 0 when the loop is over.
NextIdx(p, files, from) ==
  LET S == {j \in from..Len(p) : p[j] \in files}
  IN IF S = {} THEN 0 ELSE CHOOSE j \in S : \A m \in S : j <= m

\* Mutant: the test of the parsed duration is lost, every result falls
\* through to the probe.
InstantUsable_Never(d) == FALSE

\* if (instant > 0)
InstantUsable(d) == Gt0(d)

\* The step label getVideoDuration reports on entry (v1 only).
EntryStep(list, id) ==
  IF proc = "v1" THEN SetStep(list, id, "BINARY SCAN...") ELSE list

\* Mutant: setIsProcessing(false) after the loop is missing.
BatchAdvance_NoReset(list, resf, runf, p, files, disp, from) ==
  LET j == NextIdx(p, files, from) IN
  IF j = 0
  THEN /\ videoList' = list
       /\ res' = resf
       /\ batch' = IdleBatch
       /\ isProcessing' = isProcessing
       /\ running' = runf
  ELSE /\ videoList' = EntryStep(SetProcessing(list, p[j]), p[j])
       /\ res' = [resf EXCEPT ![p[j]] = BinaryStarted]
       /\ batch' = [pending |-> p, files |-> files, i |-> j,
                    dispatched |-> Append(disp, p[j])]
       /\ isProcessing' = TRUE
       /\ running' = [runf EXCEPT ![p[j]] = @ + 1]

\* The body of processBatch's for loop from snapshot index `from` on, up to
\* the await of getVideoDuration, or to setIsProcessing(false).
BatchAdvance(list, resf, runf, p, files, disp, from) ==
  LET j == NextIdx(p, files, from) IN
  IF j = 0
  THEN /\ videoList' = list
       /\ res' = resf
       /\ batch' = IdleBatch
       /\ isProcessing' = FALSE
       /\ running' = runf
  ELSE /\ videoList' = EntryStep(SetProcessing(list, p[j]), p[j])
       /\ res' = [resf EXCEPT ![p[j]] = BinaryStarted]
       /\ batch' = [pending |-> p, files |-> files, i |-> j,
                    dispatched |-> Append(disp, p[j])]
       /\ isProcessing' = TRUE
       /\ running' = [runf EXCEPT ![p[j]] = @ + 1]

\* if (isProcessing) return;
BatchBusy == isProcessing

\* processBatch()
ProcessBatch ==
  /\ app = "batch"
  /\ IF BatchBusy
     THEN UNCHANGED vars
     ELSE /\ BatchAdvance(videoList, res, running, PendingSnapshot(videoList),
                          fileMap, <<>>, 1)
          /\ UNCHANGED <<mode, pvars, app, proc, fileMap, nextId, processingRef>>

\* Mutant: the membership test is missing.
AlreadyInFlight_Never(id) == FALSE

\* if (processingRef.current.has(item.id)) return;
AlreadyInFlight(id) == id \in processingRef

\* processVideo(item), called with an item created earlier
ProcessVideo(id) ==
  /\ app = "auto"
  /\ id < nextId
  /\ IF AlreadyInFlight(id)
     THEN UNCHANGED vars
     ELSE /\ processingRef' = processingRef \cup {id}
          /\ IF id \notin fileMap
             THEN UNCHANGED <<videoList, res, running>>
             ELSE /\ videoList' = EntryStep(videoList, id)
                  /\ res' = [res EXCEPT ![id] = BinaryStarted]
                  /\ running' = [running EXCEPT ![id] = @ + 1]
          /\ UNCHANGED <<mode, pvars, app, proc, fileMap, nextId, isProcessing, batch>>

\* Mutant: the test of the list's length is missing.
Accepted_NoCap(k) == k

\* The number of files addFiles accepts (batch mode stops at MAX_ITEMS).
Accepted(k) ==
  IF app = "auto" THEN k
  ELSE IF Len(videoList) >= MAX_ITEMS THEN 0
       ELSE IF Len(videoList) + k > MAX_ITEMS THEN MAX_ITEMS - Len(videoList)
            ELSE k

\* addFiles(files), k files chosen, the ids of the run being 1..last
AddFilesTo(k, last) ==
  /\ app \in {"batch", "auto"}
  /\ nextId + Accepted(k) - 1 <= last
  /\ LET n == Accepted(k)
         new == [j \in 1..n |-> nextId + j - 1]
         ids == {new[j] : j \in 1..n}
     IN /\ nextId' = nextId + n
        /\ fileMap' = fileMap \cup ids
        /\ IF app = "batch"
           THEN /\ videoList' =
                     [j \in 1..n |-> NewItem(new[j], "pending", "undefined")]
                     \o videoList
                /\ UNCHANGED <<processingRef, res, running>>
           ELSE LET started == {i \in ids : ~AlreadyInFlight(i)}
                    added == videoList \o
                       [j \in 1..n |-> NewItem(new[j], "processing", "Loading")]
                IN /\ videoList' =
                        [j \in DOMAIN added |->
                           IF added[j].id \in started /\ proc = "v1"
                           THEN [added[j] EXCEPT !.step = "BINARY SCAN..."]
                           ELSE added[j]]
                   /\ processingRef' = processingRef \cup ids
                   /\ res' = [i \in Ids |->
                                IF i \in started THEN BinaryStarted ELSE res[i]]
                   /\ running' = [i \in Ids |->
                                IF i \in started THEN running[i] + 1
                                ELSE running[i]]
  /\ UNCHANGED <<mode, pvars, app, proc, isProcessing, batch>>

\* addFiles(files), k files chosen
AddFiles(k) == nextId + k - 1 <= MaxFiles /\ AddFilesTo(k, MaxFiles)

\* removeFile(id) / the auto-mode onRemove handler
RemoveFile(id) ==
  /\ id \in ListIds(videoList)
  /\ videoList' = RemoveItem(videoList, id)
  /\ fileMap' = fileMap \ {id}
  /\ UNCHANGED <<mode, pvars, app, proc, nextId, isProcessing, batch, processingRef,
                 res, running>>

\* Clear All / Clear Workspace
ClearAll ==
  /\ videoList # <<>>
  /\ videoList' = <<>>
  /\ fileMap' = {}
  /\ processingRef' = IF app = "auto" THEN {} ELSE processingRef
  /\ UNCHANGED <<mode, pvars, app, proc, nextId, isProcessing, batch, res, running>>

\* Mutant: no try/catch around the await, a rejection ends the loop.
AfterItem_AbortOnError(r2, i) ==
  IF r2.gv = "rejected" THEN Len(batch.pending) + 1 ELSE i + 1

\* Where the for loop goes on after the item at snapshot index i: the
\* try/catch around the await takes every outcome to the next iteration.
AfterItem(r2, i) == i + 1

\* The caller's continuation once getVideoDuration has settled (r2.gv):
\* processBatch publishes the outcome and goes on with its loop; processVideo
\* publishes a success, or enters the remote tier on a failure.
Finish(id, r2, list) ==
  IF app = "none"
  THEN /\ res' = [res EXCEPT ![id] = [r2 EXCEPT !.pc = "done"]]
       /\ running' = [running EXCEPT ![id] = @ - 1]
       /\ UNCHANGED <<mode, pvars, app, proc, videoList, fileMap, nextId, isProcessing,
                      batch, processingRef>>
  ELSE IF app = "batch"
  THEN /\ BatchAdvance(
            IF r2.gv = "resolved"
            THEN SetCompleted(list, id, r2.gvVal, TRUE)
            ELSE SetError(list, id, TRUE),
            [res EXCEPT ![id] = Returned(r2)],
            [running EXCEPT ![id] = @ - 1],
            batch.pending, batch.files, batch.dispatched,
            AfterItem(r2, batch.i))
       /\ UNCHANGED <<mode, pvars, app, proc, fileMap, nextId, processingRef>>
  ELSE IF r2.gv = "resolved"
       THEN /\ videoList' = SetCompleted(list, id, r2.gvVal, FALSE)
            /\ res' = [res EXCEPT ![id] = Returned(r2)]
            /\ processingRef' = processingRef \ {id}
            /\ running' = [running EXCEPT ![id] = @ - 1]
            /\ UNCHANGED <<mode, pvars, app, proc, fileMap, nextId, isProcessing, batch>>
       ELSE /\ videoList' = SetStep(list, id, "AI Analysis")
            /\ res' = [res EXCEPT ![id] =
                         [Returned(r2) EXCEPT !.pc = "remoteRead",
                                              !.tiers = Append(@, "remote"),
                                              !.steps =
                                                 Append(@, "AI Analysis")]]
            /\ UNCHANGED <<mode, pvars, app, proc, fileMap, nextId, isProcessing, batch,
                           processingRef, running>>

-----------------------------------------------------------------------------
(* Tasks of one resolution *)

\* getVideoDuration(file, onStep) called on its own, once
GetVideoDuration(id) ==
  /\ app = "none"
  /\ \A i \in Ids : res[i].pc = "idle"
  /\ res' = [res EXCEPT ![id] = BinaryStarted]
  /\ running' = [running EXCEPT ![id] = @ + 1]
  /\ UNCHANGED <<mode, pvars, app, proc, videoList, fileMap, nextId, isProcessing, batch,
                 processingRef>>

\* getVideoDuration(file, onStep) called on its own, once, with an onStep
\* that throws: in v1 the exception of onStep("BINARY SCAN...") leaves the
\* function before the parser is called.
CallWithThrowingStep(id) ==
  /\ app = "none"
  /\ \A i \in Ids : res[i].pc = "idle"
  /\ IF proc = "v1"
     THEN /\ res' = [res EXCEPT ![id] =
                       [Escapes(OnStep(IdleRes, "BINARY SCAN..."), StepError)
                          EXCEPT !.pc = "done", !.onStepThrows = TRUE]]
          /\ UNCHANGED running
     ELSE /\ res' = [res EXCEPT ![id] =
                       [BinaryStarted EXCEPT !.onStepThrows = TRUE]]
          /\ running' = [running EXCEPT ![id] = @ + 1]
  /\ UNCHANGED <<mode, pvars, app, proc, videoList, fileMap, nextId,
                 isProcessing, batch, processingRef>>

\* What the binary tier ended with (history).
BinKind(d) == IF Gt0(d) THEN "ok" ELSE "unusable"

\* A task has left id's resolution as r2 and the item list as list: when it
\* settled the promise of getVideoDuration, the caller goes on.
Step(id, r2, list) ==
  IF res[id].gv = "pending" /\ r2.gv # "pending"
  THEN Finish(id, r2, list)
  ELSE /\ res' = [res EXCEPT ![id] = r2]
       /\ videoList' = list
       /\ UNCHANGED <<mode, pvars, app, proc, fileMap, nextId, isProcessing, batch,
                      processingRef, running>>

\* The labels of the two revisions for the probe tier.
ProbeLabel == IF proc = "v2" THEN "VERIFYING..." ELSE "PROBING CODEC..."

\* const instant = await getMp4DurationInstantly(source), instant being d:
\* v2 reports "INSTANT READ" and returns; otherwise the probe starts.  In v2
\* an exception of onStep("INSTANT READ") is thrown inside the try: the
\* catch calls onStep again, and that exception leaves the function.
OnBinaryValue(r, d) ==
  IF InstantUsable(d)
  THEN IF proc = "v1" THEN [r EXCEPT !.bin = BinKind(d), !.gv = "resolved",
                                     !.gvVal = d]
       ELSE IF r.onStepThrows
       THEN Escapes(OnStep(OnStep([r EXCEPT !.bin = BinKind(d)],
                                  "INSTANT READ"), ProbeLabel), StepError)
       ELSE [OnStep(r, "INSTANT READ") EXCEPT
               !.bin = BinKind(d), !.gv = "resolved", !.gvVal = d]
  ELSE ProbeStarted([r EXCEPT !.bin = BinKind(d)])

\* Mutant: the parser's exception is not caught and rejects the call.
OnBinaryFailure_Rethrow(r) ==
  [r EXCEPT !.bin = "throw", !.gv = "rejected",
            !.err = "Duration header not found"]

\* catch (e) { onStep(...) }, then the probe starts; an exception of
\* onStep leaves the function.
OnBinaryFailure(r) ==
  IF r.onStepThrows
  THEN Escapes(OnStep([r EXCEPT !.bin = "throw"], ProbeLabel), StepError)
  ELSE ProbeStarted(OnStep([r EXCEPT !.bin = "throw"], ProbeLabel))

\* getMp4DurationInstantly(source) returned the number d
BinaryDone(id, d) ==
  /\ res[id].pc = "binary"
  /\ Step(id, OnBinaryValue(res[id], d),
          IF InstantUsable(d) /\ proc = "v2"
          THEN SetStep(videoList, id, "INSTANT READ") ELSE videoList)

\* getMp4DurationInstantly(source) threw
BinaryFail(id, e) ==
  /\ res[id].pc = "binary"
  /\ Step(id, OnBinaryFailure(res[id]), SetStep(videoList, id, ProbeLabel))

\* The engine fires loadedmetadata (once per load, not after an error).
LoadedMetadata(id, d) ==
  /\ res[id].src /\ ~res[id].metaFired /\ ~res[id].errFired
  /\ Step(id, OnLoadedMetadata(res[id], d), videoList)

\* The engine completes the seek the probe asked for.
Seeked(id, d, ct) ==
  /\ res[id].src /\ res[id].seeking /\ ~res[id].errFired
  /\ Step(id, OnSeeked(res[id], d, ct), videoList)

\* The engine rejects the media.
VideoError(id) ==
  /\ res[id].src /\ ~res[id].errFired
  /\ Step(id, OnError(res[id]), videoList)

\* The probe's timer expires.
Timeout(id) ==
  /\ res[id].timer = "armed"
  /\ Step(id, OnTimeout(res[id]), videoList)

\* Remote tier: reader.onload of readAsDataURL, then generateContent is called
RemoteReadDone(id) ==
  /\ res[id].pc = "remoteRead"
  /\ res' = [res EXCEPT ![id] = [@ EXCEPT !.pc = "remoteCall",
                                          !.remoteCalls = @ + 1]]
  /\ UNCHANGED <<mode, pvars, app, proc, videoList, fileMap, nextId, isProcessing, batch,
                 processingRef, running>>

\* duration: !isNaN(duration) ? duration : 0
RemoteDuration(t) == IF ~IsNaN(NumberOf(t)) THEN NumberOf(t) ELSE Num(0)

\* The status processVideo publishes for a remote response.
RemoteStatus(t) == "completed"

\* The response is a number (history).
RemoteNumeric(t) == t = "12.5"

\* generateContent answered with response.text = t
RemoteDone(id, t) ==
  /\ res[id].pc = "remoteCall"
  /\ videoList' =
       [i \in DOMAIN videoList |->
          IF videoList[i].id = id
          THEN [videoList[i] EXCEPT !.duration = RemoteDuration(t),
                                    !.status = RemoteStatus(t),
                                    !.step = "undefined"]
          ELSE videoList[i]]
  /\ res' = [res EXCEPT ![id] =
               Returned([@ EXCEPT !.remote = IF RemoteNumeric(t)
                                             THEN "number" ELSE "unusable"])]
  /\ processingRef' = processingRef \ {id}
  /\ running' = [running EXCEPT ![id] = @ - 1]
  /\ UNCHANGED <<mode, pvars, app, proc, fileMap, nextId, isProcessing, batch>>

\* The remote call threw: inner catch
RemoteFail(id) ==
  /\ res[id].pc = "remoteCall"
  /\ videoList' = SetError(videoList, id, FALSE)
  /\ res' = [res EXCEPT ![id] = Returned([@ EXCEPT !.remote = "throw"])]
  /\ processingRef' = processingRef \ {id}
  /\ running' = [running EXCEPT ![id] = @ - 1]
  /\ UNCHANGED <<mode, pvars, app, proc, fileMap, nextId, isProcessing, batch>>

-----------------------------------------------------------------------------
(* The aggregate: totals (useMemo over videoList and mode) *)

\* a + b of two durations
Plus(a, b) ==
  IF a.k = "nan" \/ b.k = "nan" THEN NaN
  ELSE IF a.k = "inf" \/ b.k = "inf" THEN Infinity
  ELSE Num(a.v + b.v)

\* a / n for a count n > 0, kept as the exact quotient
Over(a, n) == IF a.k = "num" THEN [k |-> "quot", v |-> a.v, n |-> n] ELSE a

\* a >= b of two durations, neither NaN
Geq(a, b) ==
  \/ a.k = "inf"
  \/ a.k = "num" /\ b.k = "num" /\ a.v >= b.v

\* Mutant: the status filter is missing.
Valid_All(list) == [j \in DOMAIN list |-> list[j].duration]

\* videoList.filter(v => v.status === 'completed').map(v => v.duration)
Valid(list) ==
  LET sel == SelectSeq(list, LAMBDA v : v.status = "completed")
  IN [j \in DOMAIN sel |-> sel[j].duration]

\* valid.reduce((a, b) => a + b, 0)
RECURSIVE Reduce(_)
Reduce(valid) ==
  IF valid = <<>> THEN Num(0)
  ELSE Plus(Reduce(SubSeq(valid, 1, Len(valid) - 1)), valid[Len(valid)])

\* Math.max(...valid), Math.min(...valid)
MathMax(valid) ==
  IF \E j \in DOMAIN valid : valid[j].k = "nan" THEN NaN
  ELSE valid[CHOOSE j \in DOMAIN valid :
                \A m \in DOMAIN valid : Geq(valid[j], valid[m])]

MathMin(valid) ==
  IF \E j \in DOMAIN valid : valid[j].k = "nan" THEN NaN
  ELSE valid[CHOOSE j \in DOMAIN valid :
                \A m \in DOMAIN valid : Geq(valid[m], valid[j])]

\* The modes the controller's buttons offer.
Modes ==
  IF app = "batch" THEN {"SUM", "AVERAGE", "MAX", "MIN"}
  ELSE {"SUM", "AVERAGE"}

\* const totals = useMemo(...)
Totals ==
  LET valid == Valid(videoList) IN
  IF Len(valid) = 0 THEN Num(0)
  ELSE IF mode = "SUM" THEN Reduce(valid)
  ELSE IF app = "auto" \/ mode = "AVERAGE"
       THEN Over(Reduce(valid), Len(valid))
  ELSE IF mode = "MAX" THEN MathMax(valid)
  ELSE MathMin(valid)

\* setMode(m)
SetMode(m) ==
  /\ app \in {"batch", "auto"}
  /\ m \in Modes
  /\ mode' = m
  /\ UNCHANGED <<pvars, app, proc, videoList, fileMap, nextId, isProcessing,
                 batch, processingRef, res, running>>

-----------------------------------------------------------------------------
(* The binary tier: getMp4DurationInstantly *)

\* Three revisions of the parser: "lowmem" (v3.2, per-box reads, mvhd),
\* "inline" (per-box reads inside try/catch, mvhd) and "precision" (v3, two
\* window reads, mdhd before mvhd).
Parsers == {"lowmem", "inline", "precision"}

\* A File is its size and its bytes; a byte that `bytes` does not list is 0.
\* `made` records what the File was built from.
NoFile == [size |-> 0, bytes |-> <<>>, made |-> "nothing"]

ByteAt(f, o) == IF o \in DOMAIN f.bytes THEN f.bytes[o] ELSE 0

\* file.slice(from, to) read into a buffer: the bytes from..to-1 that exist.
Slice(f, from, to) ==
  LET a == IF from < f.size THEN from ELSE f.size
      b == IF to < f.size THEN to ELSE f.size
  IN [base |-> a, byteLength |-> IF b > a THEN b - a ELSE 0]

\* DataView reads at offset o of a buffer; InView is the range check whose
\* failure is a RangeError.
InView(view, o, n) == o >= 0 /\ o + n <= view.byteLength

GetUint8(f, view, o) == ByteAt(f, view.base + o)

GetUint32(f, view, o) ==
  ((GetUint8(f, view, o) * 256 + GetUint8(f, view, o + 1)) * 256
     + GetUint8(f, view, o + 2)) * 256 + GetUint8(f, view, o + 3)

\* Number(view.getBigUint64(o))
GetBigUint64(f, view, o) ==
  (GetUint32(f, view, o) * 65536) * 65536 + GetUint32(f, view, o + 4)

\* String.fromCharCode of the four bytes at o, as their codes
TypeAt(f, view, o) ==
  <<GetUint8(f, view, o), GetUint8(f, view, o + 1),
    GetUint8(f, view, o + 2), GetUint8(f, view, o + 3)>>

moov == <<109, 111, 111, 118>>
mvhd == <<109, 118, 104, 100>>
trak == <<116, 114, 97, 107>>
mdia == <<109, 100, 105, 97>>
mdhd == <<109, 100, 104, 100>>
ftyp == <<102, 116, 121, 112>>
mdat == <<109, 100, 97, 116>>
free == <<102, 114, 101, 101>>

\* duration / timescale of two non-negative integers, in hundredths
Ratio(duration, timescale) ==
  IF timescale = 0
  THEN (IF duration = 0 THEN NaN ELSE Infinity)
  ELSE Num((duration * 100) \div timescale)

\* const tsOffset = version === 1 ? 20 : 12
TsOffset(version) == IF version = 1 THEN 20 ELSE 12

\* The locals of a call that has not started, and the call's result:
\* outcome.k is "pending", "value" (resolved with outcome.v) or "throw".
\* `view` and `stack` are the window being parsed and its parseBoxes
\* frames; `chunks` lists the window reads made so far, `headers` counts the
\* box headers read, `scans` lists what each window's scan ended with,
\* `readFailed` tells that reader.onerror has fired, `last` gives for the
\* last loop pass the file offset after the last byte it read through a
\* DataView and the end of the range that byte was read for.
IdleWalk ==
  [pc |-> "idle", offset |-> 0, attempts |-> 0, subOffset |-> 0,
   moovEnd |-> 0, subAttempts |-> 0,
   outcome |-> [k |-> "pending", v |-> None, e |-> "none"],
   view |-> [base |-> 0, byteLength |-> 0], stack |-> <<>>,
   chunks |-> <<>>, headers |-> 0, scans |-> <<>>, readFailed |-> FALSE,
   last |-> [hi |-> 0, end |-> 0]]

\* What the call ends with.
Resolved(v) == [k |-> "value", v |-> v, e |-> "none"]
Thrown(e) == [k |-> "throw", v |-> None, e |-> e]

\* The fields of an mvhd or mdhd box whose payload starts at offset o of
\* the view: version, timescale and duration, or the RangeError of a read
\* past the end of the view.
DecodeHeader(f, view, o) ==
  IF ~InView(view, o, 1) THEN [k |-> "range"]
  ELSE LET version == GetUint8(f, view, o)
           tsOffset == TsOffset(version)
       IN IF ~InView(view, o + tsOffset, 4) THEN [k |-> "range"]
          ELSE IF ~InView(view, o + tsOffset + 4,
                          IF version = 1 THEN 8 ELSE 4)
               THEN [k |-> "range"]
          ELSE [k |-> "ok", version |-> version,
                timescale |-> GetUint32(f, view, o + tsOffset),
                duration |-> IF version = 1
                             THEN GetBigUint64(f, view, o + tsOffset + 4)
                             ELSE GetUint32(f, view, o + tsOffset + 4)]

\* The offset of the view after the last byte the reads of DecodeHeader
\* get: version, then timescale, then duration, up to the first RangeError.
FieldsEnd(f, view, o) ==
  IF ~InView(view, o, 1) THEN o
  ELSE LET tsOffset == TsOffset(GetUint8(f, view, o))
           n == IF GetUint8(f, view, o) = 1 THEN 8 ELSE 4
       IN IF ~InView(view, o + tsOffset, 4) THEN o + 1
          ELSE IF ~InView(view, o + tsOffset + 4, n) THEN o + tsOffset + 4
          ELSE o + tsOffset + 4 + n

\* The end of the box at `at` of declared size `size` inside a range that
\* ends at `limit`; a size below 8 declares no end of its own.
BoxEnd(at, size, limit) ==
  IF size >= 8 /\ at + size < limit THEN at + size ELSE limit

\* const MAX_BOX_ATTEMPTS, and the bound of the inner while
MaxBoxAttempts == IF parser = "lowmem" THEN 100 ELSE 50
MaxSubAttempts == IF parser = "lowmem" THEN 50 ELSE 100

\* if (timescale > 0) return ... / if (timescale > 0 && duration > 0) return ...
AcceptMvhd(timescale, duration) ==
  IF parser = "lowmem" THEN timescale > 0
  ELSE timescale > 0 /\ duration > 0

\* What a RangeError thrown inside the loops ends the call with: the inline
\* revision catches it and throws its own error.
OnRangeError ==
  IF parser = "lowmem" THEN Thrown("RangeError")
  ELSE Thrown("Metadata scan incomplete")

\* throw new Error("Metadata scan incomplete") after the loops
Incomplete(w) ==
  [w EXCEPT !.pc = "done", !.outcome = Thrown("Metadata scan incomplete")]

\* while (offset < fileSize && attempts < MAX_BOX_ATTEMPTS)
TopGuard(w) == w.offset < file.size /\ w.attempts < MaxBoxAttempts

\* while (subOffset < moovEnd && subAttempts < 50)
SubGuard(w) == w.subOffset < w.moovEnd /\ w.subAttempts < MaxSubAttempts

\* One pass of the outer while: a box header is read, the moov box is
\* entered, any other box is stepped over.
TopPass(w0) ==
  IF ~TopGuard(w0) THEN Incomplete(w0)
  ELSE
  LET headerBuffer == Slice(file, w0.offset, w0.offset + 8)
      w == [w0 EXCEPT !.attempts = @ + 1, !.headers = @ + 1,
                      !.last = [hi |-> w0.offset + headerBuffer.byteLength,
                                end |-> file.size]]
  IN
  IF headerBuffer.byteLength < 8 THEN Incomplete(w)
  ELSE
  LET size32 == GetUint32(file, headerBuffer, 0)
      boxType == TypeAt(file, headerBuffer, 4)
      largeSizeBuffer == Slice(file, w.offset + 8, w.offset + 16)
  IN
  IF size32 = 1 /\ largeSizeBuffer.byteLength < 8 THEN Incomplete(w)
  ELSE
  LET boxSize == IF size32 = 1 THEN GetBigUint64(file, largeSizeBuffer, 0)
                 ELSE size32
      headerSize == IF size32 = 1 THEN 16 ELSE 8
  IN
  IF boxType = moov
  THEN [w EXCEPT !.pc = "sub", !.subOffset = w.offset + headerSize,
                  !.moovEnd = w.offset + boxSize, !.subAttempts = 0]
  ELSE IF boxSize <= 0 THEN Incomplete(w)
  ELSE [w EXCEPT !.offset = @ + boxSize]

\* One pass of the inner while over the children of moov.
SubPass(w0) ==
  IF ~SubGuard(w0) THEN Incomplete(w0)
  ELSE
  LET w1 == [w0 EXCEPT !.subAttempts = @ + 1, !.headers = @ + 1]
      subHeader == Slice(file, w1.subOffset, w1.subOffset + 8)
  IN
  IF subHeader.byteLength < 8 THEN Incomplete(w1)
  ELSE
  LET subSize == GetUint32(file, subHeader, 0)
      subType == TypeAt(file, subHeader, 4)
      n == IF subSize < 128 THEN subSize ELSE 128
      mvhdContent == Slice(file, w1.subOffset + 8, w1.subOffset + 8 + n)
      h == DecodeHeader(file, mvhdContent, 0)
      w == [w1 EXCEPT !.last =
              [hi |-> w1.subOffset + 8
                        + (IF subType = mvhd
                           THEN FieldsEnd(file, mvhdContent, 0) ELSE 0),
               end |-> BoxEnd(w1.subOffset, subSize, w1.moovEnd)]]
  IN
  IF subType = mvhd /\ h.k = "range"
  THEN [w EXCEPT !.pc = "done", !.outcome = OnRangeError]
  ELSE IF subType = mvhd /\ AcceptMvhd(h.timescale, h.duration)
  THEN [w EXCEPT !.pc = "done",
                  !.outcome = Resolved(Ratio(h.duration, h.timescale))]
  ELSE IF subSize <= 0 THEN Incomplete(w)
  ELSE [w EXCEPT !.subOffset = @ + subSize]

\* Mutant: the per-track header is not looked at.
IsMdhd_Never(boxType) == FALSE

\* if (boxType === 'mdhd')
IsMdhd(boxType) == boxType = mdhd

\* if (timescale > 0 && duration > 0) return { duration, timescale }
AcceptMdhd(timescale, duration) == timescale > 0 /\ duration > 0

\* A call of parseBoxes(view, startOffset, endOffset) is a frame of
\* walk.stack: its offset, endOffset, movieDuration and movieTimescale, and
\* `read`, the number of box headers the call has read (the code keeps no
\* such count).  The function is synchronous; its loop passes are taken one
\* per step, nothing else runs between them.
Frame(startOffset, endOffset) ==
  [offset |-> startOffset, endOffset |-> endOffset,
   movieDuration |-> -1, movieTimescale |-> -1, read |-> 0]

\* What a scan of a window ends with: a result is returned; a RangeError is
\* caught and "Duration header not found" thrown; after null the end window
\* is read if this was the start window.
ScanFound(w, duration, timescale, box) ==
  [w EXCEPT !.pc = "done", !.stack = <<>>,
            !.scans = Append(@, box),
            !.outcome = Resolved(Ratio(duration, timescale))]

ScanRange(w) ==
  [w EXCEPT !.pc = "done", !.stack = <<>>, !.scans = Append(@, "range"),
            !.outcome = Thrown("Duration header not found")]

ScanNull(w) ==
  IF w.pc = "parseStart"
  THEN [w EXCEPT !.pc = "end", !.stack = <<>>, !.scans = Append(@, "null")]
  ELSE [w EXCEPT !.pc = "done", !.stack = <<>>, !.scans = Append(@, "null"),
                 !.outcome = Thrown("Duration header not found")]

\* The loop of the top frame is over: return the mvhd values it kept, or
\* null; the caller of a frame that returned null goes on after its box.
FrameEnds(w) ==
  LET d == Len(w.stack)
      top == w.stack[d]
  IN IF top.movieDuration # -1 /\ top.movieTimescale # -1
     THEN ScanFound(w, top.movieDuration, top.movieTimescale, "mvhd")
     ELSE IF d = 1 THEN ScanNull(w)
     ELSE [w EXCEPT !.stack =
             [SubSeq(w.stack, 1, d - 1) EXCEPT ![d - 1].offset =
                @ + GetUint32(file, w.view, w.stack[d - 1].offset)]]

\* One pass of the while loop of the top frame.
ParsePass(w0) ==
  LET d == Len(w0.stack)
      top == w0.stack[d]
      offset == top.offset
  IN
  IF ~(offset < top.endOffset - 8) THEN FrameEnds(w0)
  ELSE
  LET boxSize == GetUint32(file, w0.view, offset)
      boxType == TypeAt(file, w0.view, offset + 4)
      h == DecodeHeader(file, w0.view, offset + 8)
      boxEnd == offset + boxSize
      decoded == /\ boxSize > 0
                 /\ \/ IsMdhd(boxType)
                    \/ boxType = mvhd /\ top.movieDuration = -1
      w == [w0 EXCEPT !.headers = @ + 1, !.stack[d].read = @ + 1,
                      !.last =
              [hi |-> w0.view.base
                        + (IF decoded
                           THEN FieldsEnd(file, w0.view, offset + 8)
                           ELSE offset + 8),
               end |-> w0.view.base + BoxEnd(offset, boxSize, top.endOffset)]]
  IN
  IF boxSize <= 0 THEN FrameEnds(w)
  ELSE IF boxType \in {moov, trak, mdia}
  THEN [w EXCEPT !.stack =
          Append(@, Frame(offset + 8,
                          IF boxEnd < top.endOffset THEN boxEnd
                          ELSE top.endOffset))]
  ELSE IF IsMdhd(boxType) /\ h.k = "range" THEN ScanRange(w)
  ELSE IF IsMdhd(boxType) /\ AcceptMdhd(h.timescale, h.duration)
  THEN ScanFound(w, h.duration, h.timescale, "mdhd")
  ELSE IF boxType = mvhd /\ top.movieDuration = -1 /\ h.k = "range"
  THEN ScanRange(w)
  ELSE IF boxType = mvhd /\ top.movieDuration = -1
  THEN [w EXCEPT !.stack[d].movieTimescale = h.timescale,
                 !.stack[d].movieDuration = h.duration,
                 !.stack[d].offset = boxEnd]
  ELSE [w EXCEPT !.stack[d].offset = boxEnd]

START_WINDOW == 262144
END_WINDOW == 524288

\* readChunk(offset, size)
ReadChunk(f, offset, size) == Slice(f, offset, offset + size)

\* const startView = await readChunk(0, Math.min(fileSize, 262144))
StartView(f) ==
  ReadChunk(f, 0, IF f.size < START_WINDOW THEN f.size ELSE START_WINDOW)

\* const endView = await readChunk(fileSize - endSize, endSize)
EndView(f) ==
  LET endSize == IF f.size < END_WINDOW THEN f.size ELSE END_WINDOW
  IN ReadChunk(f, f.size - endSize, endSize)

\* The chunk has been read: parseBoxes(view, 0, view.byteLength) is called.
Chunk(w, view, pc) ==
  [w EXCEPT !.pc = pc, !.view = view,
            !.chunks = Append(@, <<view.base, view.byteLength>>),
            !.stack = <<Frame(0, view.byteLength)>>]

\* The parser's steps, each the code between two awaits.
ParserStep(w2) ==
  /\ walk' = w2
  /\ UNCHANGED <<parser, file, mode, app, proc, videoList, fileMap, nextId,
                 isProcessing, batch, processingRef, res, running>>

\* getMp4DurationInstantly(file)
CallParser ==
  /\ walk.pc = "idle" /\ parser \in Parsers
  /\ ParserStep([walk EXCEPT !.pc = IF parser = "precision"
                                    THEN "start" ELSE "top"])

TopStep == walk.pc = "top" /\ ParserStep(TopPass(walk))

SubStep == walk.pc = "sub" /\ ParserStep(SubPass(walk))

ScanStart ==
  /\ walk.pc = "start"
  /\ ParserStep(Chunk(walk, StartView(file), "parseStart"))

ScanEnd ==
  /\ walk.pc = "end"
  /\ ParserStep(Chunk(walk, EndView(file), "parseEnd"))

ParseStep ==
  /\ walk.pc \in {"parseStart", "parseEnd"}
  /\ ParserStep(ParsePass(walk))

\* reader.onerror: the read being awaited fails.  The inline and precision
\* revisions catch the error and throw their own.
ReadError ==
  /\ walk.pc \in {"top", "sub", "start", "end"}
  /\ ParserStep([walk EXCEPT
        !.pc = "done", !.readFailed = TRUE,
        !.outcome = IF parser = "lowmem" THEN Thrown("ReadError")
                    ELSE IF parser = "inline"
                    THEN Thrown("Metadata scan incomplete")
                    ELSE Thrown("Duration header not found")])

\* No parser runs.
ParserIdle ==
  /\ parser = "none"
  /\ file = NoFile
  /\ walk = IdleWalk

-----------------------------------------------------------------------------
(* The Files the parser is run on *)

\* Number of 8-byte boxes that precede moov in the "many" files.
ManyBoxes == 101

\* The bytes of a 32-bit big-endian value v and of a box type t at offset o.
U32(o, v) ==
  (o :> (v \div 16777216)) @@ ((o + 1) :> ((v \div 65536) % 256))
    @@ ((o + 2) :> ((v \div 256) % 256)) @@ ((o + 3) :> (v % 256))

Str4(o, t) ==
  (o :> t[1]) @@ ((o + 1) :> t[2]) @@ ((o + 2) :> t[3]) @@ ((o + 3) :> t[4])

BoxHeader(o, size, t) == U32(o, size) @@ Str4(o + 4, t)

\* A header box is [version, timescale, duration]; version -1 is no box.
NoHeader == [version |-> -1, timescale |-> 0, duration |-> 0]

MvhdChoices ==
  {NoHeader}
    \cup [version : {0}, timescale : {0, 600}, duration : {0, 18000}]
    \cup [version : {1}, timescale : {0, 1000}, duration : {0, 45000}]

MdhdChoices ==
  {NoHeader}
    \cup [version : {0}, timescale : {0, 500}, duration : {0, 12000}]
    \cup [version : {1}, timescale : {0, 2000}, duration : {0, 50000}]

\* The mdhd of a second trak.
Mdhd2Choices ==
  {NoHeader} \cup [version : {0}, timescale : {0, 250}, duration : {9000}]

\* Length of a header box: full box header, times, timescale, duration and
\* what follows them (mvhd: 80 bytes, mdhd: 4 bytes).
HeaderLen(h, t) ==
  IF h.version = -1 THEN 0
  ELSE (IF h.version = 1 THEN 40 ELSE 28) + (IF t = mvhd THEN 80 ELSE 4)

\* The bytes of the header box h of type t at offset o.
HeaderBox(o, t, h) ==
  IF h.version = -1 THEN <<>>
  ELSE BoxHeader(o, HeaderLen(h, t), t) @@ ((o + 8) :> h.version)
         @@ (IF h.version = 1
             THEN U32(o + 28, h.timescale) @@ U32(o + 32, 0)
                    @@ U32(o + 36, h.duration)
             ELSE U32(o + 20, h.timescale) @@ U32(o + 24, h.duration))

\* What precedes moov: nothing; an ftyp box; an ftyp and an mdat box that
\* end 20 bytes before the end of the start window ("edge"), past the start
\* window ("mid": the file fits the end window) or far past it ("far");
\* ManyBoxes free boxes; a free box of declared size 0; an mdat box with a
\* 64-bit size.
Leads == {"none", "ftyp", "edge", "mid", "far", "many", "zero", "large"}

MoovAt(lead) ==
  CASE lead = "none" -> 0
    [] lead = "ftyp" -> 24
    [] lead = "edge" -> START_WINDOW - 20
    [] lead = "mid" -> START_WINDOW + 1000
    [] lead = "far" -> START_WINDOW + END_WINDOW + 1000
    [] lead = "many" -> 8 * ManyBoxes
    [] lead = "zero" -> 8
    [] lead = "large" -> 48

LeadBytes(lead) ==
  CASE lead = "none" -> <<>>
    [] lead = "ftyp" -> BoxHeader(0, 24, ftyp)
    [] lead \in {"edge", "mid", "far"} ->
         BoxHeader(0, 24, ftyp) @@ BoxHeader(24, MoovAt(lead) - 24, mdat)
    [] lead = "many" ->
         [o \in 0..(8 * ManyBoxes - 1) |->
            IF o % 8 = 3 THEN 8 ELSE IF o % 8 >= 4 THEN free[(o % 8) - 3] ELSE 0]
    [] lead = "zero" -> BoxHeader(0, 0, free)
    [] lead = "large" -> U32(0, 1) @@ Str4(4, mdat) @@ U32(8, 0) @@ U32(12, 48)

\* The size a "short" mvhd declares: less than its fields take.
ShortLen == 24

\* A layout: the lead, moov's declared size ("exact", or "zero": to the end
\* of the file), its mvhd, the size the mvhd declares ("full", or "short":
\* ShortLen), the mdhd of its trak/mdia, whether a free box as long as the
\* start window follows mdia in that trak, the mdhd of a second trak/mdia,
\* and the number of bytes missing at the end of the file.
Shapes ==
  [lead : Leads, moovSize : {"exact", "zero"}, mvhd : MvhdChoices,
   mvhdLen : {"full", "short"}, mdhd : MdhdChoices, pad : BOOLEAN,
   mdhd2 : Mdhd2Choices, cut : {0, 20}]

PadLen(l) == IF l.pad THEN START_WINDOW ELSE 0

TrakLen(l) ==
  IF l.mdhd.version = -1 THEN 0
  ELSE 16 + HeaderLen(l.mdhd, mdhd) + PadLen(l)

Trak2Len(l) ==
  IF l.mdhd2.version = -1 THEN 0 ELSE 16 + HeaderLen(l.mdhd2, mdhd)

MoovLen(l) == 8 + HeaderLen(l.mvhd, mvhd) + TrakLen(l) + Trak2Len(l)

\* moov is followed by a 16-byte mdat unless it ends the file.
TailLen(l) ==
  IF l.moovSize = "exact" /\ l.lead \notin {"edge", "mid", "far"}
  THEN 16 ELSE 0

\* The layouts that leave some of the file; a short mvhd is the only box
\* of a complete moov that comes first or after ftyp; a second trak follows
\* a first one in a complete moov that comes first, after a long mdat or
\* after an mdat with a 64-bit size; the long free box is in the first of
\* two traks of a moov that comes first.
Layouts ==
  {l \in Shapes :
     /\ l.cut < MoovAt(l.lead) + MoovLen(l) + TailLen(l)
     /\ l.mvhdLen = "short" =>
           /\ l.lead \in {"none", "ftyp"} /\ l.moovSize = "exact"
           /\ l.cut = 0 /\ l.mvhd.version # -1 /\ l.mdhd.version = -1
     /\ l.mdhd2.version # -1 =>
           /\ l.lead \in {"none", "far", "large"} /\ l.moovSize = "exact"
           /\ l.cut = 0 /\ l.mdhd.version # -1
     /\ l.pad => l.mdhd2.version # -1 /\ l.lead = "none"}

FileOf(l) ==
  LET a == MoovAt(l.lead)
      t == a + 8 + HeaderLen(l.mvhd, mvhd)
      n == HeaderLen(l.mdhd, mdhd)
      u == t + TrakLen(l)
      n2 == HeaderLen(l.mdhd2, mdhd)
      e == a + MoovLen(l)
  IN [size |-> e + TailLen(l) - l.cut,
      bytes |->
        (IF l.mvhdLen = "short" THEN U32(a + 8, ShortLen) ELSE <<>>)
          @@ LeadBytes(l.lead)
          @@ BoxHeader(a, IF l.moovSize = "zero" THEN 0 ELSE MoovLen(l), moov)
          @@ HeaderBox(a + 8, mvhd, l.mvhd)
          @@ (IF n = 0 THEN <<>>
              ELSE BoxHeader(t, TrakLen(l), trak)
                     @@ BoxHeader(t + 8, 8 + n, mdia)
                     @@ HeaderBox(t + 16, mdhd, l.mdhd))
          @@ (IF l.pad THEN BoxHeader(t + 16 + n, PadLen(l), free) ELSE <<>>)
          @@ (IF n2 = 0 THEN <<>>
              ELSE BoxHeader(u, 16 + n2, trak)
                     @@ BoxHeader(u + 8, 8 + n2, mdia)
                     @@ HeaderBox(u + 16, mdhd, l.mdhd2))
          @@ (IF TailLen(l) = 0 THEN <<>> ELSE BoxHeader(e, 16, mdat)),
      made |-> l]

-----------------------------------------------------------------------------

Init ==
  /\ app \in {"batch", "auto"}
  /\ mode = "SUM"
  /\ ParserIdle
  /\ proc \in {"v1", "v2"}
  /\ videoList = <<>>
  /\ fileMap = {}
  /\ nextId = 1
  /\ isProcessing = FALSE
  /\ batch = IdleBatch
  /\ processingRef = {}
  /\ res = [i \in Ids |-> IdleRes]
  /\ running = [i \in Ids |-> 0]

Next ==
  \/ \E k \in 1..MaxFiles : AddFiles(k)
  \/ ProcessBatch
  \/ \E id \in Ids : RemoveFile(id)
  \/ ClearAll
  \/ \E id \in Ids, d \in BinaryValues : BinaryDone(id, d)
  \/ \E id \in Ids, e \in BinaryFailures : BinaryFail(id, e)
  \/ \E id \in Ids, d \in ProbeDurations : LoadedMetadata(id, d)
  \/ \E id \in Ids, d \in ProbeDurations, ct \in SeekPositions :
        Seeked(id, d, ct)
  \/ \E id \in Ids : VideoError(id)
  \/ \E id \in Ids : Timeout(id)
  \/ \E id \in Ids : RemoteReadDone(id)
  \/ \E id \in Ids, t \in RemoteTexts : RemoteDone(id, t)
  \/ \E id \in Ids : RemoteFail(id)

Spec == Init /\ [][Next]_vars

\* The program, and processVideo called again with an item created earlier.
NextCall == Next \/ \E id \in Ids : ProcessVideo(id)

CallSpec == Init /\ [][NextCall]_vars

\* The program, and the mode buttons.
NextMode == Next \/ \E m \in {"SUM", "AVERAGE", "MAX", "MIN"} : SetMode(m)

ModeSpec == Init /\ [][NextMode]_vars

\* The batch controller alone, with what the browser guarantees: a file read
\* ends (the parse returns or throws) and an armed timer fires.
InitBatch == Init /\ app = "batch"

NextBatch ==
  \/ \E k \in 1..MaxFiles : AddFiles(k)
  \/ ProcessBatch
  \/ \E id \in Ids : RemoveFile(id)
  \/ ClearAll
  \/ \E id \in Ids, d \in BinaryValues : BinaryDone(id, d)
  \/ \E id \in Ids, e \in BinaryFailures : BinaryFail(id, e)
  \/ \E id \in Ids, d \in ProbeDurations : LoadedMetadata(id, d)
  \/ \E id \in Ids, d \in ProbeDurations, ct \in SeekPositions :
        Seeked(id, d, ct)
  \/ \E id \in Ids : VideoError(id)
  \/ \E id \in Ids : Timeout(id)

BinaryEnds(id) ==
  \/ \E d \in BinaryValues : BinaryDone(id, d)
  \/ \E e \in BinaryFailures : BinaryFail(id, e)

FairBatchSpec ==
  /\ InitBatch /\ [][NextBatch]_vars
  /\ \A id \in Ids : WF_vars(BinaryEnds(id)) /\ WF_vars(Timeout(id))

\* The batch-mode queue filled to its capacity: the user adds files by the
\* thousand, MAX_ITEMS + ExtraFiles of them being accepted over a run, and
\* removes the first or the last item of a queue that is at most RemoveDepth
\* short of its capacity.
QueueAdds == {MAX_ITEMS - 1, MAX_ITEMS, MAX_ITEMS + 1}

NextQueue ==
  \/ \E k \in QueueAdds : AddFilesTo(k, MAX_ITEMS + ExtraFiles)
  \/ \E i \in {1, Len(videoList)} :
        /\ Len(videoList) > MAX_ITEMS - RemoveDepth
        /\ RemoveFile(videoList[i].id)
  \/ ClearAll

QueueSpec == InitBatch /\ [][NextQueue]_vars

\* One call of getVideoDuration on a File, every event of its probe included.
InitProbe ==
  /\ app = "none"
  /\ mode = "SUM"
  /\ ParserIdle
  /\ proc \in {"v1", "v2"}
  /\ videoList = <<>>
  /\ fileMap = {}
  /\ nextId = 1
  /\ isProcessing = FALSE
  /\ batch = IdleBatch
  /\ processingRef = {}
  /\ res = [i \in Ids |-> IdleRes]
  /\ running = [i \in Ids |-> 0]

NextProbe ==
  \/ \E id \in Ids : GetVideoDuration(id)
  \/ \E id \in Ids, d \in BinaryValues : BinaryDone(id, d)
  \/ \E id \in Ids, e \in BinaryFailures : BinaryFail(id, e)
  \/ \E id \in Ids, d \in ProbeDurations : LoadedMetadata(id, d)
  \/ \E id \in Ids, d \in ProbeDurations, ct \in SeekPositions :
        Seeked(id, d, ct)
  \/ \E id \in Ids : VideoError(id)
  \/ \E id \in Ids : Timeout(id)

ProbeSpec == InitProbe /\ [][NextProbe]_vars

\* The same, the caller's onStep throwing or not.
NextCallback == NextProbe \/ \E id \in Ids : CallWithThrowingStep(id)

CallbackSpec == InitProbe /\ [][NextCallback]_vars

\* One call of getMp4DurationInstantly on a File.
InitParser ==
  /\ app = "none"
  /\ proc = "v2"
  /\ mode = "SUM"
  /\ videoList = <<>>
  /\ fileMap = {}
  /\ nextId = 1
  /\ isProcessing = FALSE
  /\ batch = IdleBatch
  /\ processingRef = {}
  /\ res = [i \in Ids |-> IdleRes]
  /\ running = [i \in Ids |-> 0]
  /\ parser \in Parsers
  /\ \E l \in Layouts : file = FileOf(l)
  /\ walk = IdleWalk

NextParser ==
  \/ CallParser
  \/ TopStep
  \/ SubStep
  \/ ScanStart
  \/ ScanEnd
  \/ ParseStep
  \/ ReadError

ParserSpec == InitParser /\ [][NextParser]_vars

\* ... and a read that has been started ends.
ParserFairSpec == ParserSpec /\ WF_vars(NextParser)

\* ... and an armed timer fires.
ProbeFairSpec == ProbeSpec /\ \A id \in Ids : WF_vars(Timeout(id))

-----------------------------------------------------------------------------
(* Properties *)

AllTiers == <<"binary", "probe", "remote">>

IsPrefix(a, b) == Len(a) <= Len(b) /\ \A i \in 1..Len(a) : a[i] = b[i]

\* The tiers of one resolution are started in the order binary, probe, remote;
\* the probe stands only on a binary tier that gave no usable duration, the
\* remote tier only on a rejected getVideoDuration; a resolved one returns.
TiersInOrder(r) ==
  /\ IsPrefix(r.tiers, AllTiers)
  /\ (r.pc = "binary") => (r.tiers = <<"binary">>)
  /\ (r.pc = "probe") =>
        (r.tiers = <<"binary", "probe">> /\ r.bin \in {"unusable", "throw"})
  /\ (r.pc \in {"remoteRead", "remoteCall"}) =>
        (r.tiers = AllTiers /\ r.gv = "rejected")
  /\ (r.gv = "resolved") => (r.pc = "done" /\ Len(r.tiers) <= 2)

\* After a tier has succeeded the resolution starts no further tier: its
\* list of tiers changes only when a new resolution of the item begins.
NoTierAfterSuccess(id) ==
  (res[id].gv = "resolved" /\ res'[id].tiers # res[id].tiers)
     => (res'[id].pc = "binary" /\ res'[id].tiers = <<"binary">>)

\* C1: for one item the tiers run strictly in the order binary parse,
\* playback probe, remote fallback; the probe starts only after the binary
\* tier ended without a usable duration, the remote tier only after the probe
\* failed, and no tier starts after one has succeeded.
C1_TiersStrictlyOrdered ==
  /\ [](\A id \in Ids : TiersInOrder(res[id]))
  /\ [][\A id \in Ids : NoTierAfterSuccess(id)]_vars

\* C1 witness: all three tiers have run, in order, and the remote call is out.
C1_Witness ==
  \E id \in Ids : res[id].pc = "remoteCall" /\ res[id].tiers = AllTiers

\* Some tier of the resolution succeeded: getVideoDuration resolved (binary
\* or probe tier), or the remote service answered with a number.
Succeeded(r) == r.gv = "resolved" \/ r.remote = "number"

\* C2: an item ends 'completed', with the resolved duration, if and only if
\* some tier of its resolution succeeded, and ends 'error' if and only if
\* every configured tier failed.
C2_OutcomeIffTierSucceeded ==
  \A i \in DOMAIN videoList :
     LET v == videoList[i]
         r == res[v.id]
     IN r.pc = "done" =>
          /\ (v.status = "completed") <=> Succeeded(r)
          /\ (v.status = "error") <=> ~Succeeded(r)
          /\ (r.gv = "resolved") => (v.duration = r.gvVal)

\* C9: in the remote tier a non-numeric or absent response is a final
\* failure: the item ends 'error', never 'completed'; and the remote service
\* is called at most once per resolution.
C9_RemoteUnusableIsError ==
  /\ \A id \in Ids : res[id].remoteCalls <= 1
  /\ \A i \in DOMAIN videoList :
        LET v == videoList[i]
            r == res[v.id]
        IN (r.pc = "done" /\ r.remote = "unusable") => (v.status = "error")

-----------------------------------------------------------------------------
(* getVideoDuration on its own (ProbeSpec) *)

\* The errors the probe tier rejects with.
ProbeErrors ==
  {"Invalid Duration", "Codec Incompatible", "Probe Timeout",
   "Format Error", "Timeout"}

TimeoutErrors == {"Probe Timeout", "Timeout"}

ProbeRan(r) == \E i \in DOMAIN r.tiers : r.tiers[i] = "probe"

\* C3: a failure of the binary tier (thrown, or a result that is not a
\* positive number) never rejects getVideoDuration by itself: the probe tier
\* is started, and a rejection, if any, is one of the probe's.
C3_BinaryFailureGoesToProbe ==
  \A id \in Ids :
     (res[id].bin \in {"unusable", "throw"}) =>
        /\ res[id].tiers = <<"binary", "probe">>
        /\ (res[id].gv = "rejected") => (res[id].err \in ProbeErrors)

\* C3 witness: the parser threw and the probe is running.
C3_Witness ==
  \E id \in Ids : res[id].bin = "throw" /\ res[id].pc = "probe"

\* C5: per probe invocation exactly one outcome is delivered; an event that
\* fires after the promise has settled leaves the outcome unchanged and runs
\* no further resolve, reject or cleanup.
C5_LateEventsDoNothing ==
  [][\A id \in Ids :
       (res[id].gv # "pending" /\ res'[id].pc = res[id].pc) =>
          /\ res'[id].gv = res[id].gv
          /\ res'[id].gvVal = res[id].gvVal
          /\ res'[id].settleCalls = res[id].settleCalls
          /\ res'[id].cleanups = res[id].cleanups]_vars

\* C6: a probe that acquired its resources (object URL, handlers and source
\* of the video element, timer) has released them, exactly once, when its
\* promise is settled.
C6_ProbeReleasedOnce ==
  \A id \in Ids :
     (ProbeRan(res[id]) /\ res[id].gv # "pending") =>
        /\ res[id].cleanups = 1
        /\ ~res[id].url /\ ~res[id].src
        /\ ~res[id].onmeta /\ ~res[id].onseeked /\ ~res[id].onerror
        /\ res[id].timer # "armed"

\* C7: when the timer fires on a probe whose readiness signal has not fired,
\* the probe rejects with a timeout error; and every probe eventually
\* settles.
C7_TimeoutSettlesProbe ==
  /\ [][\A id \in Ids :
          (/\ res[id].timer = "armed" /\ res'[id].timer = "fired"
           /\ ~res[id].metaFired /\ res[id].gv = "pending")
          => (res'[id].gv = "rejected" /\ res'[id].err \in TimeoutErrors)]_vars
  /\ \A id \in Ids : (res[id].pc = "probe") ~> (res[id].gv # "pending")

\* C7 witness: a probe that never became ready was rejected by its timer.
C7_Witness ==
  \E id \in Ids :
     /\ res[id].gv = "rejected" /\ res[id].err \in TimeoutErrors
     /\ ~res[id].metaFired /\ res[id].timer = "fired"

\* C8: once the readiness signal has reported a positive finite duration
\* the probe has sought to it, and a resolved probe whose post-seek duration
\* is finite and differs from the initial one returns the post-seek value.
C8_PostSeekValueWins ==
  \A id \in Ids :
     LET r == res[id] IN
     /\ (r.initDur # None /\ Gt0(r.initDur) /\ NotInfinity(r.initDur))
           => (r.seekTo = r.initDur)
     /\ (r.gv = "resolved" /\ r.postDur.k = "num" /\ r.postDur # r.initDur)
           => (r.gvVal = r.postDur)

-----------------------------------------------------------------------------
(* The controllers *)

\* C4: at most one resolution per item id is in flight; processVideo called
\* for an id of the in-flight set, and processBatch called while a batch is
\* running, change nothing.
C4_OneResolutionPerId ==
  /\ [](\A id \in Ids : running[id] <= 1)
  /\ [][\A id \in Ids :
          (id \in processingRef /\ ProcessVideo(id)) => UNCHANGED vars]_vars
  /\ [][(isProcessing /\ ProcessBatch) => UNCHANGED vars]_vars

\* C4 witness: a resolution is in flight for an id of the in-flight set.
C4_Witness ==
  \E id \in Ids :
     /\ app = "auto" /\ id \in processingRef
     /\ running[id] = 1 /\ res[id].pc = "probe"

\* The ids of the snapshot that have a file, in snapshot order.
Dispatchable(b) == SelectSeq(b.pending, LAMBDA x : x \in b.files)

Settled(id) ==
  \/ id \notin ListIds(videoList)
  \/ ItemOf(videoList, id).status \in {"completed", "error"}

\* C10: a rejected resolution does not end the batch: when the loop is over,
\* every item of its snapshot that has a file has been dispatched, in order;
\* and every dispatched item reaches 'completed' or 'error' (unless the user
\* removes it first).
C10_BatchSurvivesFailures ==
  /\ [][(isProcessing /\ ~isProcessing')
          => (batch.dispatched = Dispatchable(batch))]_vars
  /\ \A id \in Ids : (res[id].pc \in {"binary", "probe"}) ~> Settled(id)

\* C10 witness: the first item of a batch ended in 'error' and the second
\* one is being resolved.
C10_Witness ==
  /\ isProcessing /\ Len(batch.dispatched) = 2
  /\ batch.dispatched[1] \in ListIds(videoList)
  /\ ItemOf(videoList, batch.dispatched[1]).status = "error"
  /\ res[batch.dispatched[2]].pc = "probe"

-----------------------------------------------------------------------------
(* The item list *)

Range(q) == {q[j] : j \in DOMAIN q}

PendingOrError(list) ==
  {list[i].id : i \in {j \in DOMAIN list :
                          list[j].status \in {"pending", "error"}}}

\* C11: a 'completed' item keeps its status and duration as long as it is
\* in the list and is never dispatched again; a batch takes exactly the
\* items that are 'pending' or 'error' when it starts and has dispatched
\* every one of them when it ends.
C11_CompletedNotReprocessed ==
  /\ [][\A i \in DOMAIN videoList :
          (videoList[i].status = "completed") =>
             LET id == videoList[i].id IN
             /\ res'[id].pc # "binary"
             /\ (id \in ListIds(videoList')) =>
                   /\ ItemOf(videoList', id).status = "completed"
                   /\ ItemOf(videoList', id).duration
                         = videoList[i].duration]_vars
  /\ [][(~isProcessing /\ isProcessing')
          => (Range(batch'.pending) = PendingOrError(videoList))]_vars
  /\ [][(isProcessing /\ ~isProcessing')
          => (Range(batch.pending) \subseteq Range(batch.dispatched))]_vars

\* C11 witness: a batch is running over an item while another item, completed
\* by an earlier batch, is in the list and not in the running batch's snapshot.
C11_Witness ==
  /\ isProcessing /\ batch.dispatched # <<>>
  /\ \E i \in DOMAIN videoList :
        /\ videoList[i].status = "completed"
        /\ videoList[i].id \notin Range(batch.pending)

\* The status changes of the lifecycle.
LifecycleSteps ==
  {<<"pending", "processing">>, <<"processing", "completed">>,
   <<"processing", "error">>, <<"error", "processing">>}

\* Every item that is new in the list after a step has status st and
\* duration 0.
CreatedWith(st) ==
  \A j \in DOMAIN videoList' :
     (videoList'[j].id \notin ListIds(videoList)) =>
        /\ videoList'[j].status = st
        /\ videoList'[j].duration = Num(0)

\* Every item that stays in the list keeps its status or changes it along
\* the lifecycle.
StatusFollowsLifecycle ==
  \A i \in DOMAIN videoList :
     LET id == videoList[i].id IN
     (id \in ListIds(videoList')) =>
        \/ ItemOf(videoList', id).status = videoList[i].status
        \/ <<videoList[i].status, ItemOf(videoList', id).status>>
              \in LifecycleSteps

\* C12: every item is created 'pending' with duration 0, and its status
\* changes only along pending -> processing -> completed or error, and
\* error -> processing.
C12_CreatedPending ==
  [][CreatedWith("pending") /\ StatusFollowsLifecycle]_vars

\* C12 as amended: an item is created with duration 0, 'pending' by the
\* batch controller and 'processing' by the auto-processing controller
\* (which dispatches it in the same handler); its status then changes only
\* along the lifecycle.
C12_Lifecycle ==
  [][/\ CreatedWith(IF app = "batch" THEN "pending" ELSE "processing")
     /\ StatusFollowsLifecycle]_vars

\* C12 witness: the auto-processing controller has completed one item and
\* holds another, just created, as 'processing'.
C12_Witness ==
  /\ app = "auto"
  /\ \E i, j \in DOMAIN videoList :
        /\ videoList[i].status = "completed"
        /\ videoList[j].status = "processing"
        /\ videoList[j].duration = Num(0)

-----------------------------------------------------------------------------
(* The aggregate *)

\* The positions of the list whose item is 'completed'.
CompletedAt == {i \in DOMAIN videoList : videoList[i].status = "completed"}

\* The sum of the durations at the positions S.
RECURSIVE SumAt(_)
SumAt(S) ==
  IF S = {} THEN Num(0)
  ELSE LET i == CHOOSE x \in S : TRUE
       IN Plus(videoList[i].duration, SumAt(S \ {i}))

\* C13: totals is the sum, average, maximum or minimum, by the selected mode,
\* of the durations of exactly the 'completed' items of the current list, and
\* 0 when there is none.
C13_TotalsOfCompleted ==
  LET S == CompletedAt IN
  /\ mode \in Modes
  /\ (S = {}) => (Totals = Num(0))
  /\ (S # {} /\ mode = "SUM") => (Totals = SumAt(S))
  /\ (S # {} /\ mode = "AVERAGE")
        => (Totals = Over(SumAt(S), Cardinality(S)))
  /\ (S # {} /\ mode = "MAX") =>
        /\ \E i \in S : Totals = videoList[i].duration
        /\ \A i \in S : Geq(Totals, videoList[i].duration)
  /\ (S # {} /\ mode = "MIN") =>
        /\ \E i \in S : Totals = videoList[i].duration
        /\ \A i \in S : Geq(videoList[i].duration, Totals)

\* C13 witness: the average is shown of a list that holds a completed item
\* and an item in 'error'.
C13_Witness ==
  /\ mode = "AVERAGE"
  /\ \E i, j \in DOMAIN videoList :
        /\ videoList[i].status = "completed"
        /\ videoList[i].duration.k = "num" /\ videoList[i].duration.v > 0
        /\ videoList[j].status = "error"

-----------------------------------------------------------------------------
\* The binary tier.

\* The parser has returned a duration.
ParserReturned == walk.pc = "done" /\ walk.outcome.k = "value"

\* C14: the binary tier never returns a duration taken from a header whose
\* timescale is 0.  duration / timescale is a finite number exactly when the
\* timescale is not 0, so every returned duration is a finite number.
C14_ZeroTimescaleNotAccepted ==
  ParserReturned => walk.outcome.v.k = "num"

\* The largest attempt ceiling a revision of the parser configures.
LargestCeiling == 100

\* C15: the number of box headers the traversal reads at a level never
\* exceeds the attempt ceiling of that level: the top level and the children
\* of moov in the two looping revisions, every call of parseBoxes in the
\* third.
C15_WithinCeilings ==
  /\ walk.attempts <= MaxBoxAttempts
  /\ walk.subAttempts <= MaxSubAttempts
  /\ \A i \in DOMAIN walk.stack : walk.stack[i].read <= LargestCeiling

\* The layout of the file is a well-formed container: nothing is missing,
\* moov declares its length and comes first, after ftyp, after ftyp and mdat
\* or after an mdat with a 64-bit size, and it holds an mvhd.
WellFormed ==
  LET l == file.made IN
  /\ l.cut = 0 /\ l.moovSize = "exact" /\ l.mvhdLen = "full"
  /\ l.lead \in {"none", "ftyp", "edge", "mid", "far", "large"}
  /\ l.mvhd.version # -1

\* The headers of the file the running revision takes a duration from: mvhd,
\* and mdhd in the revision that drills into trak and mdia.
Bearing ==
  {file.made.mvhd}
    \cup (IF parser = "precision" /\ file.made.mdhd.version # -1
          THEN {file.made.mdhd} ELSE {})
    \cup (IF parser = "precision" /\ file.made.mdhd2.version # -1
          THEN {file.made.mdhd2} ELSE {})

\* The parser has ended and no read has failed.
ParserEnded == walk.pc = "done" /\ ~walk.readFailed

\* C16: on a well-formed container whose duration-bearing headers have
\* timescale > 0 the parser returns duration / timescale of such a header,
\* the two fields being those written at payload offsets 12 and 16 (version
\* 0) or 20 and 24 (version 1).
C16_ReturnsDurationOverTimescale ==
  (ParserEnded /\ WellFormed /\ \A h \in Bearing : h.timescale > 0)
    => /\ walk.outcome.k = "value"
       /\ \E h \in Bearing :
             walk.outcome.v = Num((h.duration * 100) \div h.timescale)

\* The file holds an mvhd and an mdhd.
BothHeaders == file.made.mvhd.version # -1 /\ file.made.mdhd.version # -1

\* moov, with every byte of it in the file, is met by the scan of a window:
\* it comes first, after ftyp, after ftyp and an mdat that ends within the
\* end window, or after the free boxes.
Reachable ==
  /\ file.made.lead \in {"none", "ftyp", "mid", "many"}
  /\ file.made.moovSize = "exact" /\ file.made.cut = 0

\* The header the returned duration was taken from: "mdhd" or "mvhd".
TakenFrom == walk.scans[Len(walk.scans)]

\* C17 as stated: whenever an mdhd and an mvhd are both present and
\* reachable within the scanned window, the duration returned is the one of
\* the mdhd.
C17_MdhdPrecedes ==
  (parser = "precision" /\ ParserReturned /\ BothHeaders /\ Reachable)
    => /\ TakenFrom = "mdhd"
       /\ walk.outcome.v
            = Ratio(file.made.mdhd.duration, file.made.mdhd.timescale)

\* The mdhd of the file has timescale > 0 and duration > 0.
ValidMdhd ==
  /\ file.made.mdhd.version # -1
  /\ file.made.mdhd.timescale > 0 /\ file.made.mdhd.duration > 0

\* C17, amended: whenever an mdhd with timescale > 0 and duration > 0 and an
\* mvhd are both present and reachable within the scanned window, the parser
\* returns the duration of the mdhd; the value of the mvhd is returned only
\* when the file holds no such mdhd.
C17_ValidMdhdPrecedes ==
  (parser = "precision" /\ ParserEnded) =>
    /\ (BothHeaders /\ Reachable /\ ValidMdhd) => ParserReturned
    /\ (ParserReturned /\ ValidMdhd) =>
          /\ TakenFrom = "mdhd"
          /\ walk.outcome.v
               = Ratio(file.made.mdhd.duration, file.made.mdhd.timescale)
    /\ (ParserReturned /\ TakenFrom = "mvhd") => ~ValidMdhd

\* C17 witness: a file with an mvhd of timescale > 0 and an mdhd of another
\* ratio has been parsed, and the duration of the mdhd returned.
C17_Witness ==
  /\ parser = "precision" /\ ParserReturned
  /\ BothHeaders /\ ValidMdhd /\ file.made.mvhd.timescale > 0
  /\ TakenFrom = "mdhd"
  /\ walk.outcome.v # Ratio(file.made.mvhd.duration, file.made.mvhd.timescale)

\* min(fileSize, n)
AtMost(n) == IF file.size < n THEN file.size ELSE n

\* The scan of the start window has ended without a duration.
StartFailed == Len(walk.scans) >= 1 /\ walk.scans[1] \notin {"mdhd", "mvhd"}

\* C18: the first read is the start window, the first min(fileSize, 256 KiB)
\* bytes; the end window, the last min(fileSize, 512 KiB) bytes, is read if
\* and only if the scan of the start window did not produce a duration; no
\* other read is made.
C18_StartThenEndWindow ==
  parser = "precision" =>
    /\ Len(walk.chunks) <= 2
    /\ Len(walk.chunks) >= 1 => walk.chunks[1] = <<0, AtMost(START_WINDOW)>>
    /\ Len(walk.chunks) = 2 =>
          /\ walk.chunks[2]
               = <<file.size - AtMost(END_WINDOW), AtMost(END_WINDOW)>>
          /\ StartFailed
    /\ (ParserEnded /\ StartFailed) => Len(walk.chunks) = 2

\* moov, complete and with an mvhd, lies after the start window and within
\* the last 512 KiB of the file.
MoovAtEndOnly ==
  /\ file.made.lead \in {"mid", "far"}
  /\ file.made.moovSize = "exact" /\ file.made.cut = 0
  /\ file.made.mvhd.version # -1

\* C19: on a file whose moov lies only within the last 512 KiB and whose
\* headers have timescale > 0, the scan of the start window ends with null
\* and the scan of the end window returns duration / timescale of a header
\* of the file.
C19_FoundInEndWindow ==
  (parser = "precision" /\ ParserEnded /\ MoovAtEndOnly
     /\ \A h \in Bearing : h.timescale > 0)
    => /\ Len(walk.scans) = 2 /\ walk.scans[1] = "null"
       /\ walk.outcome.k = "value"
       /\ \E h \in Bearing :
             walk.outcome.v = Ratio(h.duration, h.timescale)

\* The last top-level box of the file is a moov of declared size 0, first or
\* after ftyp, and its headers have timescale > 0 and duration > 0.
MoovToEnd ==
  /\ file.made.lead \in {"none", "ftyp"}
  /\ file.made.moovSize = "zero" /\ file.made.cut = 0
  /\ file.made.mvhd.version # -1
  /\ \A h \in Bearing : h.timescale > 0 /\ h.duration > 0

\* C20: a moov of declared size 0 at the top level extends to the end of
\* the file: its children are traversed and the duration of a valid header
\* inside it is returned.
C20_SizeZeroToEnd ==
  (ParserEnded /\ MoovToEnd)
    => /\ walk.outcome.k = "value"
       /\ \E h \in Bearing :
             walk.outcome.v = Ratio(h.duration, h.timescale)

\* C21: the range of a child level ends no later than the range of its
\* parent, and the header and the header fields read for a box lie inside
\* the declared range of that box and inside the range being traversed.
C21_ReadsInsideRange ==
  /\ walk.pc = "sub" => walk.moovEnd <= file.size
  /\ \A i \in DOMAIN walk.stack :
        walk.stack[i].endOffset
          <= (IF i = 1 THEN walk.view.byteLength
              ELSE walk.stack[i - 1].endOffset)
  /\ walk.last.hi <= walk.last.end

\* The file starts with an mdat box whose 32-bit size is 1 and whose 64-bit
\* size is 48; moov, complete, follows it at offset 48.
LargeFirst ==
  /\ file.made.lead = "large"
  /\ file.made.moovSize = "exact" /\ file.made.cut = 0

\* C22: a box whose 32-bit size is 1 has a 16-byte header and the length
\* its 64-bit size gives: after such a box at offset 0 the next top-level
\* header is looked for at the end of the box, never inside it.
C22_LargeSizeSkipsBox ==
  LargeFirst =>
    /\ walk.pc = "top" => walk.offset \in {0, MoovAt("large")}
    /\ (walk.stack # <<>> /\ walk.view.base = 0)
          => walk.stack[1].offset \notin 1..(MoovAt("large") - 1)

-----------------------------------------------------------------------------
(* The step callback *)

\* C23: an onStep callback that throws does not change the outcome of
\* getVideoDuration: the call is never rejected with the exception of the
\* callback, and a usable result of the parser is still returned.
C23_ThrowingStepHarmless ==
  \A id \in Ids :
     /\ res[id].err # StepError
     /\ (res[id].bin = "ok") => (res[id].gv = "resolved")

-----------------------------------------------------------------------------
(* Concurrency of the controllers *)

\* The ids whose resolution is in flight.
InFlight ==
  {id \in Ids : res[id].pc \in {"binary", "probe", "remoteRead", "remoteCall"}}

\* The worker limit of the sequential loop: one awaited item at a time.
WorkerLimit == 1

\* C24: the number of items whose resolution is in flight never exceeds the
\* worker limit, however many files were added.
C24_BoundedInFlight == Cardinality(InFlight) <= WorkerLimit

\* The ids of the list, in order.
IdSeq(list) == [i \in DOMAIN list |-> list[i].id]

\* C25: a step of a resolution (a label or an outcome is published, the
\* next item of a batch is taken) leaves the order of the list unchanged and
\* changes no entry but those of the items whose resolution took the step.
C25_OnlyOwnEntry ==
  [][(nextId' = nextId /\ res' # res) =>
       /\ IdSeq(videoList') = IdSeq(videoList)
       /\ \A i \in DOMAIN videoList :
             (videoList'[i] # videoList[i])
                => (res'[videoList[i].id] # res[videoList[i].id])]_vars

\* C25 witness: of two items whose resolutions ran interleaved one has its
\* outcome published while the other one is still with the probe.
C25_Witness ==
  /\ app = "auto" /\ Len(videoList) = 2
  /\ videoList[1].status = "completed" /\ Gt0(videoList[1].duration)
  /\ videoList[2].status = "processing"
  /\ res[videoList[2].id].pc = "probe"
  /\ videoList[2].step = ProbeLabel

\* The labels reported for the resolution r.
Labels(r) == {r.steps[i] : i \in DOMAIN r.steps}

\* The tiers the resolution r has entered.
Entered(r) == {r.tiers[i] : i \in DOMAIN r.tiers}

\* C26: a step label is reported at each tier transition: the label of the
\* probe tier has been reported when the probe tier runs, whatever the
\* binary tier ended with, and the label of the remote tier when the remote
\* tier runs.
C26_LabelAtEachTransition ==
  \A id \in Ids :
     /\ ("probe" \in Entered(res[id])) => (ProbeLabel \in Labels(res[id]))
     /\ ("remote" \in Entered(res[id])) => ("AI Analysis" \in Labels(res[id]))

-----------------------------------------------------------------------------
(* The value getVideoDuration resolves with *)

\* C27: getVideoDuration resolves with a positive finite number only,
\* whichever tier produced it.
C27_ResolvesPositiveFinite ==
  \A id \in Ids :
     (res[id].gv = "resolved")
        => (res[id].gvVal.k = "num" /\ res[id].gvVal.v > 0)

-----------------------------------------------------------------------------
(* The in-flight set *)

\* C28: the in-flight set holds an id only while a resolution of that id is
\* running: once a call of processVideo has returned or settled, with or
\* without a file registered for the id, the id is not in the set.
C28_InFlightSetIsExact == processingRef \subseteq InFlight

-----------------------------------------------------------------------------
(* Removal during a resolution *)

\* The item id was created and is no longer in the list.
Removed(id) == id < nextId /\ id \notin ListIds(videoList)

\* C29: when the resolution of a removed item takes a step (it reports a
\* label, settles, publishes an outcome), the item does not reappear in the
\* list, the order of the list is kept, and no entry changes but that of an
\* item whose own resolution takes the same step (the batch loop publishes
\* an outcome and takes its next item in one step).
C29_RemovalIsFinal ==
  [][\A id \in Ids :
       (Removed(id) /\ res'[id] # res[id]) =>
          /\ id \notin ListIds(videoList')
          /\ IdSeq(videoList') = IdSeq(videoList)
          /\ \A i \in DOMAIN videoList :
                (videoList'[i] # videoList[i])
                   => /\ videoList[i].id # id
                      /\ res'[videoList[i].id] # res[videoList[i].id]]_vars

\* C29 witness: the resolution of a removed item is in flight, its remote
\* call about to answer, while the list holds another item that is still
\* being resolved.
C29_Witness ==
  \E id \in Ids :
     /\ Removed(id) /\ res[id].pc = "remoteCall"
     /\ Len(videoList) = 1 /\ videoList[1].status = "processing"
     /\ res[videoList[1].id].pc = "probe"

\* A processBatch loop is at the await of one of its items.
LoopRunning == batch.i # 0

\* C30: isProcessing is true exactly while a processBatch loop is running;
\* every running batch sets it back to false, whatever its items' outcomes;
\* and a processBatch called when it is false takes the items that are
\* 'pending' or 'error' and have a file.
C30_FlagFollowsLoop ==
  /\ [](isProcessing <=> LoopRunning)
  /\ [](isProcessing =>
          \E id \in Ids : /\ res[id].pc \in {"binary", "probe"}
                          /\ batch.pending[batch.i] = id)
  /\ isProcessing ~> ~isProcessing
  /\ [][(~isProcessing /\ ProcessBatch
            /\ PendingOrError(videoList) \cap fileMap # {})
          => isProcessing']_vars

\* C30 witness: no batch is running, and the list holds an item a batch has
\* completed and an item a batch has left in 'error'.
C30_Witness ==
  /\ ~isProcessing /\ batch = IdleBatch
  /\ \E i, j \in DOMAIN videoList :
        /\ videoList[i].status = "completed"
        /\ videoList[j].status = "error"

-----------------------------------------------------------------------------
\* Several tracks.

\* The per-track headers of the file, in file order.
Tracks == <<file.made.mdhd, file.made.mdhd2>>

SeveralTracks == \A i \in DOMAIN Tracks : Tracks[i].version # -1

\* if (timescale > 0 && duration > 0)
Positive(h) == h.version # -1 /\ h.timescale > 0 /\ h.duration > 0

\* The first per-track header in file order with timescale > 0 and
\* duration > 0.
FirstPositive ==
  Tracks[CHOOSE i \in DOMAIN Tracks :
           /\ Positive(Tracks[i])
           /\ \A j \in 1..(i - 1) : ~Positive(Tracks[j])]

\* C31: when the container holds several tracks with per-track headers, the
\* parser returns duration / timescale of the first per-track header in file
\* order whose timescale and duration are both positive; the result is a
\* function of the file.
C31_FirstPositiveTrack ==
  (parser = "precision" /\ ParserEnded /\ SeveralTracks
     /\ \E i \in DOMAIN Tracks : Positive(Tracks[i]))
    => /\ ParserReturned
       /\ walk.outcome.v
            = Ratio(FirstPositive.duration, FirstPositive.timescale)

\* The same when every byte of moov is in the window that is scanned from a
\* box boundary.
FirstPositiveInWindow ==
  (parser = "precision" /\ ParserEnded /\ SeveralTracks
     /\ \E i \in DOMAIN Tracks : Positive(Tracks[i])
     /\ Reachable /\ ~file.made.pad)
    => /\ ParserReturned
       /\ walk.outcome.v
            = Ratio(FirstPositive.duration, FirstPositive.timescale)

-----------------------------------------------------------------------------
\* The capacity of the batch-mode queue.

\* C32: after any sequence of addFiles, removeFile and Clear All the
\* batch-mode queue holds at most MAX_ITEMS items; the file map holds the
\* files of the queue's items and no other, so a file that was not added
\* has no entry; addFiles on a full queue changes nothing.
C32_QueueWithinCapacity ==
  /\ [](app = "batch" =>
          /\ Len(videoList) <= MAX_ITEMS
          /\ fileMap = ListIds(videoList)
          /\ Cardinality(fileMap) = Len(videoList))
  /\ [][(app = "batch" /\ Len(videoList) = MAX_ITEMS
            /\ \E k \in QueueAdds : AddFilesTo(k, MAX_ITEMS + ExtraFiles))
          => UNCHANGED <<videoList, fileMap>>]_vars

\* C32 witness: the queue is full again after an item was removed from a
\* full queue and more files were offered than it had room for.
C32_Witness ==
  /\ app = "batch" /\ Len(videoList) = MAX_ITEMS
  /\ nextId = MAX_ITEMS + 2
  /\ videoList[1].id = MAX_ITEMS + 1

====
